---- MODULE Spec2Model ----
(***************************************************************************)
(* A model of the websocket synchronisation server.                       *)
(*                                                                         *)
(* The repository holds two generations of the server: the monolithic      *)
(* binary (src/src/main.rs) and its refactoring into a controller,         *)
(* services and handlers (src/src/controller, src/src/services,            *)
(* src/src/handlers).  Both sit on the same storage layer                  *)
(* (src/src/local_storage).  The variable `build` says which generation    *)
(* a behaviour runs; it never changes.                                     *)
(*                                                                         *)
(* Scope of the stored data: the contracts table, the only kind whose      *)
(* store in src/src/local_storage reads and writes arrivalAtServer, and    *)
(* the locations table with its junction to sawmills.  A contract row is   *)
(* modelled by the columns id, lastEdit, title, deleted and                *)
(* arrivalAtServer, a location row by id, lastEdit, deleted and            *)
(* arrivalAtServer; the other columns are carried like title.  The replay  *)
(* runs over the seven kinds; contracts and locations are replayed from    *)
(* their tables, one user record is replayed, and the pages of the other   *)
(* kinds are empty.                                                        *)
(* The users table read by the authentication holds one live user per      *)
(* tenant and, for tenant "b", one deleted user.                           *)
(*                                                                         *)
(* Every connection runs as its own task on a multi-threaded runtime and   *)
(* every handler opens its own database connection, so the steps of two    *)
(* handlers interleave at every statement that touches the database or     *)
(* the client table.  task[c].pc is the position of connection c.          *)
(*                                                                         *)
(* Specifications:                                                         *)
(*   Spec      the refactored server, one client authenticated, a second   *)
(*             socket still to be accepted;                                *)
(*   SpecMain  the monolithic binary from the same state;                  *)
(*   SpecStore the refactored server with two clients of one tenant and    *)
(*             one stored contract: ingest and replay;                     *)
(*   SpecDelta the replay over every contracts table, the client's writer  *)
(*             task stopping at any point;                                 *)
(*   SpecLocation the refactored server with one client and one stored     *)
(*             location: the ingest of locations and the junction;         *)
(*   SpecAuth  the refactored server from its start: connections accepted, *)
(*             authenticated or not, the authentication deadline and the   *)
(*             writer task; weak fairness of the deadline and of the       *)
(*             handler's own steps, none of inbound frames;                *)
(*   SpecFault the state of SpecStore with the ingest of contracts over an *)
(*             entity store whose statements can fail, frames the protocol *)
(*             does not know and writer tasks that stop;                   *)
(*   SpecHandoff two clients of one tenant, one saving locations while the *)
(*             other is sent a replay;                                     *)
(*   SpecTombstone the same with the stored location deleted before.       *)
(***************************************************************************)
EXTENDS Integers, Sequences, FiniteSets, TLC

\* ------------------------------------------------------------------ bounds
\* The server clock (chrono::Utc::now().timestamp_millis()) takes 1..MaxNow.
MaxNow == 2
\* The server reads at most MaxFrames frames, over all its sockets, after the
\* initial state.
MaxFrames == 2
\* At most MaxOutbox frames are enqueued on one outbound channel after the
\* initial state.
MaxOutbox == 10
\* A replay fetches at most MaxPages pages with records for one kind.
MaxPages == 2

\* Client ids are fresh UUIDs; the model names the accepted sockets in the
\* order in which they are accepted.
ConnOrder == <<"k1", "k2">>
Conns == {ConnOrder[n] : n \in 1..Len(ConnOrder)}
Ids == {"c1", "c2"}
Titles == {"old", "new"}
\* The lastEdit values a client asserts.
Edits == {1, 2}
Watermarks == 0..MaxNow

\* Tenants whose database file exists, and the live rows of their users table.
DbFiles == {<<"a">>, <<"b">>}
\* The credentials a client may present: sequences of characters.
ApiKeys ==
    { <<"a", "-", "1">>, <<"b", "-", "1">>, <<"a", "-", "9">>, <<"b", "-", "8">>,
      <<"z", "-", "1">> }

\* Credentials that are not of the form <tenant>-<userId>: no '-', nothing
\* before it, nothing after it.
Malformed == { <<"a", "1">>, <<"-", "1">>, <<"a", "-">> }

VARIABLES build, clients, outbox, contracts, now, task, rx, channel, pools, locations

vars == <<build, clients, outbox, contracts, now, task, rx, channel, pools, locations>>

\* ------------------------------------------------------------ row store
\* Vec<Value> of the rows with this id, tombstones included.
get_by_id(tbl, id) ==
    IF id \in DOMAIN tbl THEN <<tbl[id]>> ELSE <<>>

\* The lookup without the test of the deleted column.
get_existing_by_id_any(tbl, id) ==
    IF id \in DOMAIN tbl THEN <<tbl[id]>> ELSE <<>>

\* get_existing_by_id: SELECT * FROM table WHERE deleted = 0 AND id = ?.
get_existing_by_id(tbl, id) ==
    IF id \in DOMAIN tbl /\ tbl[id].deleted = 0 THEN <<tbl[id]>> ELSE <<>>

\* INSERT OR REPLACE INTO table (columns of data) VALUES (...).
insert(tbl, data) ==
    [i \in DOMAIN tbl \cup {data.id} |-> IF i = data.id THEN data ELSE tbl[i]]

\* update() with the comparison new_last_edit < existing_last_edit.
update_passes_lt(tbl, data) ==
    /\ data.id \in DOMAIN tbl
    /\ ~(data.lastEdit < tbl[data.id].lastEdit)

\* update(), first half: SELECT lastEdit WHERE id = ? and the comparison.
\* TRUE when update() goes on to its UPDATE statement; FALSE when it
\* returns Ok(0) (no such row, or new_last_edit <= existing_last_edit).
update_passes(tbl, data) ==
    /\ data.id \in DOMAIN tbl
    /\ ~(data.lastEdit <= tbl[data.id].lastEdit)

\* update(), second half: UPDATE table SET <every key of data but id> WHERE id = ?.
update_write(tbl, data) ==
    IF data.id \in DOMAIN tbl
    THEN [tbl EXCEPT ![data.id] =
            [k \in DOMAIN @ |-> IF k \in DOMAIN data THEN data[k] ELSE @[k]]]
    ELSE tbl

\* UPDATE table SET deleted = 1, lastEdit = t, arrivalAtServer = t WHERE id = ?.
mark_as_deleted(tbl, id, t) ==
    IF id \in DOMAIN tbl
    THEN [tbl EXCEPT ![id] = [@ EXCEPT !.deleted = 1, !.lastEdit = t, !.arrivalAtServer = t]]
    ELSE tbl

\* insert_or_update without the test of the deleted column.
existing_live_any(item) == "deleted" \in DOMAIN item

\* insert_or_update: the test on the row get_by_id found,
\*   if let Some(deleted) = item.get("deleted") { if deleted.as_i64() == Some(0)
existing_live(item) == "deleted" \in DOMAIN item /\ item.deleted = 0

\* save_contract: the record with arrivalAtServer stamped from the clock.
save_contract_stamp(data, t) ==
    [k \in DOMAIN data \cup {"arrivalAtServer"} |->
        IF k = "arrivalAtServer" THEN t ELSE data[k]]

\* ------------------------------------------------------------ junction
\* The junction table is a set of rows <<locationId, sawmillId, isOversize>>:
\* its primary key is made of the three columns.  The connections
\* CoreLocalStorage::new opens do not switch foreign keys on.

\* A rewrite of the junction that deletes nothing.
delete_by_column_none(j, locationId) == j

\* delete_by_column: DELETE FROM junction WHERE locationId = ?.
delete_by_column(j, locationId) == {r \in j : r[1] # locationId}

\* insert_location_sawmill_junction: INSERT OR REPLACE of one row.
insert_location_sawmill_junction(j, locationId, sawmillId, isOversize) ==
    j \cup {<<locationId, sawmillId, isOversize>>}

\* The rows insert_or_update_location inserts, in its order: one for every
\* element of sawmillIds with isOversize 0, then one for every element of
\* oversizeSawmillIds with isOversize 1.
junction_rows(data) ==
    [n \in 1..Len(data.sawmillIds) |-> <<data.id, data.sawmillIds[n], 0>>]
    \o [n \in 1..Len(data.oversizeSawmillIds) |-> <<data.id, data.oversizeSawmillIds[n], 1>>]

\* insert_or_update_location: the record without its two arrays.
location_data(data) ==
    [k \in DOMAIN data \ {"sawmillIds", "oversizeSawmillIds"} |-> data[k]]

\* get_sawmill_ids: SELECT sawmillId WHERE locationId = ? AND isOversize = ?.
\* SQL leaves the order of the rows open: the result is taken as a set.
get_sawmill_ids(j, id, isOversize) == {r[2] : r \in {q \in j : q[1] = id /\ q[3] = isOversize}}

\* get_location_by_id: the row, tombstone or not, with the two sets read
\* from the junction attached; no row is an error, the empty sequence here.
get_location_by_id(loc, id) ==
    IF get_by_id(loc.rows, id) = <<>> THEN <<>>
    ELSE <<[row |-> get_by_id(loc.rows, id)[1],
            sawmillIds |-> get_sawmill_ids(loc.junction, id, 0),
            oversizeSawmillIds |-> get_sawmill_ids(loc.junction, id, 1)]>>

\* ------------------------------------------------------------ delta query
\* The query with lastEdit in the place of arrivalAtServer.
delta_rows_by_edit(tbl, w) ==
    {i \in DOMAIN tbl : tbl[i].deleted = 0 /\ tbl[i].lastEdit > w}

\* The query with the comparison turned round.
delta_rows_before(tbl, w) ==
    {i \in DOMAIN tbl : tbl[i].deleted = 0 /\ tbl[i].arrivalAtServer < w}

\* The rows selected by
\*   SELECT * FROM contracts WHERE deleted = 0 AND arrivalAtServer > ?
delta_rows(tbl, w) ==
    {i \in DOMAIN tbl : tbl[i].deleted = 0 /\ tbl[i].arrivalAtServer > w}

\* The JSON object built for one selected row: neither deleted nor
\* arrivalAtServer is copied into it.
contract_json(row) ==
    [id |-> row.id, lastEdit |-> row.lastEdit, title |-> row.title]

\* ORDER BY lastEdit ASC.  SQL leaves the order of rows of equal lastEdit
\* open; the model lists them in the order of IdOrder.
IdOrder == <<"c1", "c2", "l1", "l2">>

Rank(i) == CHOOSE n \in 1..Len(IdOrder) : IdOrder[n] = i

RECURSIVE ordered(_, _)
ordered(tbl, S) ==
    IF S = {} THEN <<>>
    ELSE LET m == CHOOSE i \in S : \A j \in S \ {i} :
                     \/ tbl[i].lastEdit < tbl[j].lastEdit
                     \/ (tbl[i].lastEdit = tbl[j].lastEdit /\ Rank(i) < Rank(j))
         IN <<m>> \o ordered(tbl, S \ {m})

get_contract_updates_by_date(tbl, w) ==
    LET ids == ordered(tbl, delta_rows(tbl, w))
    IN [n \in 1..Len(ids) |-> contract_json(tbl[ids[n]])]

\* The page of locations at a watermark: the rows with
\* arrivalAtServer > watermark in lastEdit order, each read as
\* get_location_by_id reads it, the row with the two sets of the junction,
\* and sent with its arrivalAtServer.
get_location_updates_by_date(loc, w) ==
    LET ids == ordered(loc.rows, {i \in DOMAIN loc.rows : loc.rows[i].arrivalAtServer > w})
        rec(i) == get_location_by_id(loc, i)[1]
    IN [n \in 1..Len(ids) |->
          [k \in DOMAIN rec(ids[n]).row \cup {"sawmillIds", "oversizeSawmillIds"} |->
              IF k = "sawmillIds" THEN rec(ids[n]).sawmillIds
              ELSE IF k = "oversizeSawmillIds" THEN rec(ids[n]).oversizeSawmillIds
              ELSE rec(ids[n]).row[k]]]

\* ------------------------------------------------------------ client table
NewClient(id) ==
    [id |-> id, db_name |-> <<>>, user_id |-> <<>>,
     sync_completed |-> FALSE, authenticated |-> FALSE]

add_client(cl, id) ==
    [i \in DOMAIN cl \cup {id} |-> IF i = id THEN NewClient(id) ELSE cl[i]]

remove_client(cl, id) ==
    [i \in DOMAIN cl \ {id} |-> cl[i]]

\* A binding of tenant and user id that leaves the flag as it is.
update_client_auth_unflagged(cl, id, db_name, user_id) ==
    IF id \in DOMAIN cl
    THEN [cl EXCEPT ![id] = [@ EXCEPT !.db_name = db_name, !.user_id = user_id]]
    ELSE cl

\* A binding that sets the flag and the user id and leaves the tenant empty.
update_client_auth_no_tenant(cl, id, db_name, user_id) ==
    IF id \in DOMAIN cl
    THEN [cl EXCEPT ![id] = [@ EXCEPT !.user_id = user_id, !.authenticated = TRUE]]
    ELSE cl

update_client_auth(cl, id, db_name, user_id) ==
    IF id \in DOMAIN cl
    THEN [cl EXCEPT ![id] = [@ EXCEPT !.db_name = db_name, !.user_id = user_id,
                                      !.authenticated = TRUE]]
    ELSE cl

\* The client table with the sync-complete flag never set.
mark_sync_completed_never(cl, id) == cl

mark_sync_completed(cl, id) ==
    IF id \in DOMAIN cl THEN [cl EXCEPT ![id].sync_completed = TRUE] ELSE cl

get_clients_by_tenant(cl, tenant) ==
    {i \in DOMAIN cl : cl[i].db_name = tenant /\ cl[i].authenticated}

\* ------------------------------------------------------------ messaging
\* Frames are JSON objects; the wall-clock "timestamp" field is left out.
\* sender.send(frame) on the unbounded channel of client c: the frame is
\* enqueued while the receiving half is alive, and refused after.
send(ob, c, frame) == IF channel[c] THEN [ob EXCEPT ![c] = Append(@, frame)] ELSE ob

\* A send that reports no failure.
send_fails_never(cl, c) == FALSE

\* MessageService::send_message returns Err: the client is not in the table
\* (ClientNotFound) or its channel is closed (SendFailed).
send_fails(cl, c) == c \notin DOMAIN cl \/ ~channel[c]

\* send_message: enqueue for the client if it is in the table.
send_message(cl, ob, c, frame) ==
    IF c \in DOMAIN cl THEN send(ob, c, frame) ELSE ob

is_deleted(message) ==
    /\ "data" \in DOMAIN message
    /\ "deleted" \in DOMAIN message.data
    /\ message.data.deleted = 1

\* The acknowledgement that returns every frame as it came.
confirm_msg_echo(message) == message

\* The frame returned to the originator.
confirm_msg(message) ==
    IF is_deleted(message)
    THEN message
    ELSE [type |-> message.type, data |-> [id |-> message.data.id, synced |-> 1]]

\* A fan-out that sends the acknowledgement to every client of the tenant.
broadcast_update_ack_all(cl, ob, sender_id, message) ==
    IF sender_id \notin DOMAIN cl \/ cl[sender_id].db_name = <<>>
    THEN ob
    ELSE LET to == get_clients_by_tenant(cl, cl[sender_id].db_name)
         IN [c \in DOMAIN ob |->
               IF c \notin to THEN ob[c] ELSE send(ob, c, confirm_msg(message))[c]]

\* A fan-out that gives up when one of its sends fails.
broadcast_update_abort(cl, ob, sender_id, message) ==
    IF sender_id \notin DOMAIN cl \/ cl[sender_id].db_name = <<>>
    THEN ob
    ELSE LET to == get_clients_by_tenant(cl, cl[sender_id].db_name)
         IN IF \E c \in to : ~channel[c] THEN ob
            ELSE [c \in DOMAIN ob |->
                    IF c \notin to THEN ob[c]
                    ELSE IF c # sender_id THEN send(ob, c, message)[c]
                    ELSE send(ob, c, confirm_msg(message))[c]]

\* MessageService::broadcast_update: the outbound channels after the fan-out.
broadcast_update(cl, ob, sender_id, message) ==
    IF sender_id \notin DOMAIN cl \/ cl[sender_id].db_name = <<>>
    THEN ob
    ELSE LET to == get_clients_by_tenant(cl, cl[sender_id].db_name)
         IN [c \in DOMAIN ob |->
               IF c \notin to THEN ob[c]
               ELSE IF c # sender_id THEN send(ob, c, message)[c]
               ELSE send(ob, c, confirm_msg(message))[c]]

\* main.rs broadcast_message: every client whose db_name is not empty.
broadcast_message(cl, ob, client_id, message) ==
    [c \in DOMAIN ob |->
        IF c \notin DOMAIN cl \/ cl[c].db_name = <<>> THEN ob[c]
        ELSE IF c # client_id THEN send(ob, c, message)[c]
        ELSE send(ob, c, confirm_msg(message))[c]]

\* The fan-out of the running build.
fan_out(b, cl, ob, c, message) ==
    IF b = "main" THEN broadcast_message(cl, ob, c, message)
    ELSE broadcast_update(cl, ob, c, message)

\* ------------------------------------------------------------ credentials
\* api_key.splitn(2, '-'): the parts around the first '-'.
RECURSIVE first_dash(_, _)
first_dash(s, n) ==
    IF n > Len(s) THEN 0
    ELSE IF s[n] = "-" THEN n
    ELSE first_dash(s, n + 1)

splitn2(s) ==
    LET d == first_dash(s, 1)
    IN IF d = 0 THEN <<s>>
       ELSE <<SubSeq(s, 1, d - 1), SubSeq(s, d + 1, Len(s))>>

\* A registry in which every tenant has a database file.
database_exists_any(tenant) == TRUE

database_exists(tenant) == tenant \in DbFiles

\* get_or_create_pool: the tenants with a cached pool, after the call.  The
\* database file is initialised here and nowhere else, when it is not there.
get_or_create_pool(pl, tenant) == pl \cup {tenant}

\* The users table of a tenant: every tenant has the live user "1", and
\* tenant "b" the deleted user "8".  No user is written after the initial
\* state.
Users(tenant) ==
    LET live == [id |-> <<"1">>, role |-> 1, name |-> "A", lastEdit |-> 1, deleted |-> 0]
        gone == [id |-> <<"8">>, role |-> 1, name |-> "B", lastEdit |-> 1, deleted |-> 1]
    IN IF tenant = <<"b">>
       THEN [i \in {<<"1">>, <<"8">>} |-> IF i = <<"1">> THEN live ELSE gone]
       ELSE [i \in {<<"1">>} |-> live]

\* UserLocalStorage::get_user_by_id: the live user row with this id, if any.
get_user_by_id(tenant, user_id) == get_existing_by_id(Users(tenant), user_id)

auth_rejection(error) ==
    [type |-> "authentication_response", data |-> [authenticated |-> 0, error |-> error]]

auth_response(user) ==
    [type |-> "authentication_response",
     data |-> [id |-> user.id, role |-> user.role, lastEdit |-> user.lastEdit,
               name |-> user.name, authenticated |-> 1]]

\* ------------------------------------------------------------ replay order
\* handle_sync_request replays the kinds in this order.
KindOrder ==
    <<"user_update", "sawmill_update", "contract_update", "location_update",
      "shipment_update", "note_update", "photo_update">>

\* The watermark a sync_request carries for the n-th kind:
\*   data.get("<kind>_update").and_then(|v| v.as_i64()).unwrap_or(0)
last_sync(f, n) ==
    IF "data" \in DOMAIN f /\ KindOrder[n] \in DOMAIN f.data THEN f.data[KindOrder[n]] ELSE 0

\* UserLocalStorage::get_user_updates_by_date: the users table holds the one
\* live user "1", written at clock value 1; its record carries
\* arrivalAtServer.
get_user_updates_by_date(tenant, date) ==
    IF 1 > date
    THEN <<[id |-> <<"1">>, role |-> 1, name |-> "A", lastEdit |-> 1, arrivalAtServer |-> 1]>>
    ELSE <<>>

\* The page of the n-th kind at a watermark.  No row is written to the
\* tables of sawmills, shipments, notes and photos: their pages are empty.
updates_by_date(n, tenant, date) ==
    CASE KindOrder[n] = "user_update" -> get_user_updates_by_date(tenant, date)
      [] KindOrder[n] = "contract_update" -> get_contract_updates_by_date(contracts[tenant], date)
      [] KindOrder[n] = "location_update" -> get_location_updates_by_date(locations[tenant], date)
      [] OTHER -> <<>>

\* ------------------------------------------------------------ inbound frames
AuthFrames == {[type |-> "authentication_request", data |-> [apiKey |-> k]] : k \in ApiKeys}

CredentialFrames ==
    {[type |-> "authentication_request", data |-> [apiKey |-> k]] : k \in ApiKeys \cup Malformed}

SyncFrames == {[type |-> "sync_request", data |-> [contract_update |-> w]] : w \in Watermarks}

SaveFrames ==
    {[type |-> "contract_update",
      data |-> [id |-> i, lastEdit |-> e, title |-> v, deleted |-> 0]] :
        i \in Ids, e \in Edits, v \in Titles}

DeleteFrames == {[type |-> "contract_update", data |-> [id |-> i, deleted |-> 1]] : i \in Ids}

UpdateFrames == SaveFrames \cup DeleteFrames

LocIds == {"l1", "l2"}

\* The values of sawmillIds and of oversizeSawmillIds a client sends.
SawmillLists == {<<>>, <<"s1">>, <<"s2", "s1">>}

OversizeLists == {<<>>, <<"s1">>}

LocationSaveFrames ==
    {[type |-> "location_update",
      data |-> [id |-> i, lastEdit |-> e, deleted |-> 0,
                sawmillIds |-> a, oversizeSawmillIds |-> b]] :
        i \in LocIds, e \in Edits, a \in SawmillLists, b \in OversizeLists}

LocationDeleteFrames == {[type |-> "location_update", data |-> [id |-> i, deleted |-> 1]] : i \in LocIds}

LocationFrames == LocationSaveFrames \cup LocationDeleteFrames

\* Frames the protocol does not know: a text that is not JSON, a type the
\* dispatch has no arm for, and updates of a kind that is none of the seven.
OddFrames ==
    {[raw |-> "{"],
     [type |-> "hello"],
     [type |-> "widget_update", data |-> [id |-> "c1", lastEdit |-> 2, title |-> "new", deleted |-> 0]],
     [type |-> "widget_update", data |-> [id |-> "c1", deleted |-> 1]]}

PlainFrames == {[type |-> "ping"], [type |-> "sync_complete"], [type |-> "hello"]}

Frames ==
    CredentialFrames \cup SyncFrames \cup UpdateFrames \cup LocationFrames \cup PlainFrames
    \cup OddFrames

\* ------------------------------------------------------------ state
EmptyMap == [i \in {} |-> 0]

NoMsg == [type |-> "none"]

\* The locals of a connection task: the frame being handled, the clock value
\* read for it, the row count of its last statement, the replay watermark,
\* the place in KindOrder of the kind being replayed, the number of pages
\* with records fetched for it, and the place in junction_rows of the next
\* junction row to insert.
At(pc) ==
    [pc |-> pc, msg |-> NoMsg, stamp |-> 0, rows |-> 0, date |-> 0, kind |-> 0, pages |-> 0,
     step |-> 0]

\* A contract saved at clock value 1.
StoredContract ==
    [id |-> "c1", lastEdit |-> 1, title |-> "old", deleted |-> 0, arrivalAtServer |-> 1]

\* The databases with that contract saved for tenant "a".
OneContract ==
    [t \in DbFiles |-> IF t = <<"a">> THEN insert(EmptyMap, StoredContract) ELSE EmptyMap]

\* The locations table and the junction table of every tenant, empty.
NoLocations == [t \in DbFiles |-> [rows |-> EmptyMap, junction |-> {}]]

\* A location saved at clock value 1 with sawmill "s1", for tenant "a".
StoredLocation == [id |-> "l1", lastEdit |-> 1, deleted |-> 0, arrivalAtServer |-> 1]

OneLocation ==
    [t \in DbFiles |->
        IF t = <<"a">>
        THEN [rows |-> insert(EmptyMap, StoredLocation),
              junction |-> insert_location_sawmill_junction({}, "l1", "s1", 0)]
        ELSE [rows |-> EmptyMap, junction |-> {}]]

\* The client record after a successful authentication.
Authenticated(c, tenant, user_id) ==
    [id |-> c, db_name |-> tenant, user_id |-> user_id,
     sync_completed |-> FALSE, authenticated |-> TRUE]

\* The server with its first client authenticated for tenant "a", one
\* contract saved, and no other socket accepted yet.  outbox[c] and rx[c]
\* record what is enqueued for c and read from c from this state on.
OneClient ==
    /\ clients = [c \in {ConnOrder[1]} |-> Authenticated(c, <<"a">>, <<"1">>)]
    /\ outbox = [c \in Conns |-> <<>>]
    /\ contracts = OneContract
    /\ now = 1
    /\ task = [c \in Conns |-> IF c = ConnOrder[1] THEN At("steady") ELSE At("init")]
    /\ rx = [c \in Conns |-> 0]
    /\ channel = [c \in Conns |-> TRUE]
    /\ pools = {<<"a">>}
    /\ locations = NoLocations

\* The refactored server.
Init == build = "modular" /\ OneClient

\* The monolithic binary.
InitMain == build = "main" /\ OneClient

Fits(ob) == \A c \in Conns : Len(ob[c]) <= MaxOutbox

\* The database of client c.
Db(c) == clients[c].db_name

\* The frame in flight on c is of the location kind.
OnLocations(c) == task[c].msg.type = "location_update"

\* The table the frame in flight on c is written to.
Table(c) == IF OnLocations(c) THEN locations[Db(c)].rows ELSE contracts[Db(c)]

\* The table of the frame in flight on c becomes tbl.
Write(c, tbl) ==
    IF OnLocations(c)
    THEN locations' = [locations EXCEPT ![Db(c)].rows = tbl] /\ UNCHANGED contracts
    ELSE contracts' = [contracts EXCEPT ![Db(c)] = tbl] /\ UNCHANGED locations

\* The record handed to insert_or_update for the save in flight on c.
SaveData(c) ==
    IF OnLocations(c)
    THEN save_contract_stamp(location_data(task[c].msg.data), task[c].stamp)
    ELSE save_contract_stamp(task[c].msg.data, task[c].stamp)

\* ------------------------------------------------------------ clock
\* The clock is read by save_contract and by mark_as_deleted only, so it is
\* let advance only when one of them is about to run.
Tick ==
    /\ now < MaxNow
    /\ \E c \in Conns : task[c].pc \in {"get_by_id", "mark_deleted"}
    /\ now' = now + 1
    /\ UNCHANGED <<channel, pools, locations, build, clients, outbox, contracts, task, rx>>

\* ------------------------------------------------------------ connection
\* handle_new_connection / handle_connection: register the client.
Connect(c) ==
    /\ task[c].pc = "init"
    /\ \A n \in 1..Len(ConnOrder) :
          ConnOrder[n] = c => \A m \in 1..(n - 1) : task[ConnOrder[m]].pc # "init"
    /\ clients' = add_client(clients, c)
    /\ task' = [task EXCEPT ![c] = At("wait_auth")]
    /\ UNCHANGED <<channel, pools, locations, build, outbox, contracts, now, rx>>

\* The socket ends (close, read error, authentication deadline): the handler
\* leaves its read loop and removes the client.
Disconnect(c) ==
    /\ task[c].pc \in {"wait_auth", "steady"}
    /\ clients' = remove_client(clients, c)
    /\ task' = [task EXCEPT ![c] = At("closed")]
    /\ UNCHANGED <<channel, pools, locations, build, outbox, contracts, now, rx>>

\* A deadline that never expires.
deadline_covers_none(pc) == FALSE

\* timeout(auth_timeout_secs, wait_for_authentication(..)): the positions of
\* a connection the deadline runs over.
deadline_covers(pc) == pc \in {"wait_auth", "auth_respond"}

\* The deadline expires: the wait is dropped where it stands and
\* handle_new_connection removes the client.
AuthTimeout(c) ==
    /\ deadline_covers(task[c].pc)
    /\ c \in DOMAIN clients
    /\ clients' = remove_client(clients, c)
    /\ task' = [task EXCEPT ![c] = At("closed")]
    /\ UNCHANGED <<channel, pools, locations, build, outbox, contracts, now, rx>>

\* ------------------------------------------------------------ handlers
\* A handler that returns without touching anything.
Return(c) == UNCHANGED <<clients, outbox, contracts, task, pools>>

\* The end of a failed authentication: in the authentication wait the
\* connection is closed and the client removed; in the steady loop of the
\* modular build the error is logged and the loop goes on.
AuthFail(c, ob, pl) ==
    /\ Fits(ob)
    /\ outbox' = ob
    /\ pools' = pl
    /\ IF task[c].pc = "wait_auth"
       THEN /\ clients' = remove_client(clients, c)
            /\ task' = [task EXCEPT ![c] = At("closed")]
       ELSE UNCHANGED <<clients, task>>
    /\ UNCHANGED contracts

\* AuthService::authenticate, up to update_client_auth.
authenticate(c, f) ==
    LET parts == splitn2(f.data.apiKey)
        tenant == parts[1]
        user_id == parts[2]
    IN IF Len(parts) # 2 THEN AuthFail(c, outbox, pools)
       ELSE IF ~database_exists(tenant)
       THEN AuthFail(c, send_message(clients, outbox, c, auth_rejection("Invalid tenant")), pools)
       ELSE IF get_user_by_id(tenant, user_id) = <<>>
       THEN AuthFail(c, send_message(clients, outbox, c, auth_rejection("User not found")),
                     get_or_create_pool(pools, tenant))
       ELSE /\ pools' = get_or_create_pool(pools, tenant)
            /\ clients' = update_client_auth(clients, c, tenant, user_id)
            /\ task' = [task EXCEPT ![c] = [At("auth_respond") EXCEPT !.msg = f]]
            /\ UNCHANGED <<outbox, contracts>>

\* main.rs handle_authentication_request, up to the binding of db_name.
handle_authentication_request(c, f) ==
    LET parts == splitn2(f.data.apiKey)
        tenant == parts[1]
        user_id == parts[2]
    IN IF Len(parts) # 2 THEN AuthFail(c, outbox, pools)
       ELSE IF ~database_exists(tenant)
       THEN AuthFail(c, send_message(clients, outbox, c, auth_rejection("Invalid tenant")), pools)
       ELSE /\ pools' = get_or_create_pool(pools, tenant)
            /\ clients' = [clients EXCEPT ![c].db_name = tenant, ![c].user_id = user_id]
            /\ task' = [task EXCEPT ![c] = [At("auth_lookup") EXCEPT !.msg = f]]
            /\ UNCHANGED <<outbox, contracts>>

\* send_pong
send_pong(c) ==
    /\ outbox' = send_message(clients, outbox, c, [type |-> "pong"])
    /\ Fits(outbox')
    /\ UNCHANGED <<clients, contracts, task, pools>>

\* handle_sync_complete
handle_sync_complete(c) ==
    /\ outbox' = send_message(clients, outbox, c, [type |-> "sync_to_server_complete"])
    /\ Fits(outbox')
    /\ UNCHANGED <<clients, contracts, task, pools>>

\* handle_sync_request, up to the first page: the modular build refuses a
\* client that is not authenticated.
handle_sync_request(c, f) ==
    IF build = "modular" /\ ~clients[c].authenticated
    THEN Return(c)
    ELSE /\ task' = [task EXCEPT ![c] =
                        [At("sync") EXCEPT !.msg = f, !.kind = 1, !.date = last_sync(f, 1)]]
         /\ UNCHANGED <<clients, outbox, contracts, pools>>

\* A dispatch that takes every update for one of a known kind.
known_kind_any(update_type) == TRUE

\* process_update: the arms of its match on update_type; any other type is
\* logged and answered Ok(false).
known_kind(update_type) ==
    \E n \in 1..Len(KindOrder) : KindOrder[n] = update_type

\* handle_data_update -> process_update (handle_client_message in main.rs),
\* up to the call of save_contract or mark_as_deleted.
handle_data_update(c, f) ==
    IF Db(c) = <<>> \/ ~known_kind(f.type)
    THEN Return(c)
    ELSE /\ task' = [task EXCEPT ![c] =
                        [At(IF is_deleted(f) THEN "mark_deleted"
                            ELSE IF f.type = "location_update" THEN "junction_delete"
                            ELSE "get_by_id")
                            EXCEPT !.msg = f]]
         /\ UNCHANGED <<clients, outbox, contracts, pools>>

\* Controller::process_message, and the dispatch of main.rs's
\* handle_authenticated_client.
process_message(c, f) ==
    CASE f.type = "authentication_request" ->
            IF build = "main"
            THEN IF task[c].pc = "wait_auth" THEN handle_authentication_request(c, f)
                 ELSE Return(c)
            ELSE authenticate(c, f)
      [] f.type = "sync_request" -> handle_sync_request(c, f)
      [] f.type = "sync_complete" -> handle_sync_complete(c)
      [] f.type = "ping" -> send_pong(c)
      [] f.type \in {"contract_update", "location_update", "widget_update"} ->
            handle_data_update(c, f)
      [] OTHER -> Return(c)

\* The number of frames read from the first n sockets.
RECURSIVE FramesRead(_)
FramesRead(n) == IF n = 0 THEN 0 ELSE rx[ConnOrder[n]] + FramesRead(n - 1)

\* An authentication wait that hands every frame on.
wait_dispatches_all(msg_type) == TRUE

\* wait_for_authentication / authenticate_client: the only frame type the
\* authentication wait hands on.
wait_dispatches(msg_type) == msg_type = "authentication_request"

\* serde_json::from_str::<Value>(text) is Ok: the text is JSON.  The frames
\* of the model that are JSON have a type.
from_str(f) == "type" \in DOMAIN f

\* One frame read from the socket of c, in the authentication wait or in the
\* steady loop.
Recv(c, f) ==
    /\ task[c].pc \in {"wait_auth", "steady"}
    /\ FramesRead(Len(ConnOrder)) < MaxFrames
    /\ rx' = [rx EXCEPT ![c] = @ + 1]
    /\ IF ~from_str(f) THEN Return(c)
       ELSE IF task[c].pc = "wait_auth" /\ ~wait_dispatches(f.type)
       THEN Return(c)
       ELSE process_message(c, f)
    /\ UNCHANGED <<channel, locations, build, now>>

RecvAuth(c) == \E f \in AuthFrames : Recv(c, f)

RecvCredential(c) == \E f \in CredentialFrames : Recv(c, f)

RecvSync(c) == \E f \in SyncFrames : Recv(c, f)

RecvUpdate(c) == \E f \in UpdateFrames : Recv(c, f)

RecvPlain(c) == \E f \in PlainFrames : Recv(c, f)

RecvLocation(c) == \E f \in LocationFrames : Recv(c, f)

RecvOdd(c) == \E f \in OddFrames : Recv(c, f)

\* ------------------------------------------------------------ authentication, continued
\* authenticate, after update_client_auth: the response is sent and
\* wait_for_authentication returns client.authenticated.
AuthRespond(c) ==
    /\ task[c].pc = "auth_respond"
    /\ LET parts == splitn2(task[c].msg.data.apiKey)
           user == get_user_by_id(parts[1], parts[2])[1]
       IN outbox' = send_message(clients, outbox, c, auth_response(user))
    /\ Fits(outbox')
    /\ task' = [task EXCEPT ![c] = At("steady")]
    /\ UNCHANGED <<channel, pools, locations, build, clients, contracts, now, rx>>

\* main.rs handle_authentication_request, after the binding of db_name: the
\* user lookup, the response, and handle_connection's removal of a client
\* that failed.
AuthLookup(c) ==
    /\ task[c].pc = "auth_lookup"
    /\ LET parts == splitn2(task[c].msg.data.apiKey)
           user == get_user_by_id(parts[1], parts[2])
       IN IF user = <<>>
          THEN /\ outbox' = send_message(clients, outbox, c, auth_rejection("User not found"))
               /\ clients' = remove_client(clients, c)
               /\ task' = [task EXCEPT ![c] = At("closed")]
          ELSE /\ outbox' = send_message(clients, outbox, c, auth_response(user[1]))
               /\ clients' = [clients EXCEPT ![c].authenticated = TRUE]
               /\ task' = [task EXCEPT ![c] = At("steady")]
    /\ Fits(outbox')
    /\ UNCHANGED <<channel, pools, locations, build, contracts, now, rx>>

\* ------------------------------------------------------------ ingest
\* insert_or_update_location, first statement: the junction rows of the
\* location are deleted.
JunctionDelete(c) ==
    /\ task[c].pc = "junction_delete"
    /\ locations' = [locations EXCEPT ![Db(c)].junction =
                        delete_by_column(@, task[c].msg.data.id)]
    /\ task' = [task EXCEPT ![c].pc = IF junction_rows(task[c].msg.data) = <<>>
                                      THEN "get_by_id" ELSE "junction_insert",
                            ![c].step = 1]
    /\ UNCHANGED <<channel, pools, build, clients, outbox, contracts, now, rx>>

\* insert_or_update_location, the two loops: one junction row is inserted;
\* after the last the record, without its arrays, goes to insert_or_update.
JunctionInsert(c) ==
    /\ task[c].pc = "junction_insert"
    /\ LET r == junction_rows(task[c].msg.data)[task[c].step]
       IN locations' = [locations EXCEPT ![Db(c)].junction =
                           insert_location_sawmill_junction(@, r[1], r[2], r[3])]
    /\ task' = [task EXCEPT ![c].pc = IF task[c].step = Len(junction_rows(task[c].msg.data))
                                      THEN "get_by_id" ELSE "junction_insert",
                            ![c].step = @ + 1]
    /\ UNCHANGED <<channel, pools, build, clients, outbox, contracts, now, rx>>

\* save_contract reads the clock and calls insert_or_update: get_by_id and
\* the choice it makes.  On a tombstone insert_or_update returns Ok(false).
IouGet(c) ==
    /\ task[c].pc = "get_by_id"
    /\ LET existing == get_by_id(Table(c), task[c].msg.data.id)
       IN task' = [task EXCEPT ![c] =
             IF existing = <<>> THEN [@ EXCEPT !.pc = "insert", !.stamp = now]
             ELSE IF existing_live(existing[1]) THEN [@ EXCEPT !.pc = "update", !.stamp = now]
             ELSE [@ EXCEPT !.pc = "skipped", !.stamp = now]]
    /\ UNCHANGED <<channel, pools, locations, build, clients, outbox, contracts, now, rx>>

\* handle_data_update: update_successful is false, so it returns without a
\* fan-out.
Skip(c) ==
    /\ task[c].pc = "skipped"
    /\ task' = [task EXCEPT ![c] = At("steady")]
    /\ UNCHANGED <<channel, pools, locations, build, clients, outbox, contracts, now, rx>>

\* insert_or_update: self.insert(...); return Ok(true).
IouInsert(c) ==
    /\ task[c].pc = "insert"
    /\ Write(c, insert(Table(c), SaveData(c)))
    /\ task' = [task EXCEPT ![c].pc = "broadcast", ![c].rows = 1]
    /\ UNCHANGED <<channel, pools, build, clients, outbox, now, rx>>

\* update: SELECT lastEdit and the comparison.  insert_or_update returns
\* Ok(true) whatever update returns.
IouUpdateSelect(c) ==
    /\ task[c].pc = "update"
    /\ task' = [task EXCEPT ![c].pc =
                  IF update_passes(Table(c), SaveData(c))
                  THEN "update_write" ELSE "broadcast"]
    /\ UNCHANGED <<channel, pools, locations, build, clients, outbox, contracts, now, rx>>

\* update: the UPDATE statement.
IouUpdateWrite(c) ==
    /\ task[c].pc = "update_write"
    /\ Write(c, update_write(Table(c), SaveData(c)))
    /\ task' = [task EXCEPT ![c].pc = "broadcast",
                            ![c].rows = IF task[c].msg.data.id \in DOMAIN Table(c)
                                        THEN 1 ELSE 0]
    /\ UNCHANGED <<channel, pools, build, clients, outbox, now, rx>>

\* handle_deletion: mark_as_deleted(...).map(|_| true).
MarkDeleted(c) ==
    /\ task[c].pc = "mark_deleted"
    /\ Write(c, mark_as_deleted(Table(c), task[c].msg.data.id, now))
    /\ task' = [task EXCEPT ![c].pc = "broadcast",
                            ![c].rows = IF task[c].msg.data.id \in DOMAIN Table(c)
                                        THEN 1 ELSE 0]
    /\ UNCHANGED <<channel, pools, build, clients, outbox, now, rx>>

\* The positions of a handler inside the entity store.
StoragePcs == {"get_by_id", "insert", "update", "update_write", "mark_deleted"}

\* A storage error that ends the connection.
StorageErrorCloses(c) ==
    /\ task[c].pc \in StoragePcs
    /\ clients' = remove_client(clients, c)
    /\ task' = [task EXCEPT ![c] = At("closed")]
    /\ UNCHANGED <<channel, pools, locations, build, outbox, contracts, now, rx>>

\* A statement of the entity store fails (the pool, a constraint, the file):
\* save_contract or mark_as_deleted returns Err, process_update maps it to
\* DatabaseError::Storage, handle_data_update leaves through its `?` before
\* the fan-out, and the read loop logs the error and reads on.
StorageError(c) ==
    /\ task[c].pc \in StoragePcs
    /\ task' = [task EXCEPT ![c] = At("steady")]
    /\ UNCHANGED <<channel, pools, locations, build, clients, outbox, contracts, now, rx>>

\* handle_data_update: update_successful, so the fan-out.
Broadcast(c) ==
    /\ task[c].pc = "broadcast"
    /\ outbox' = fan_out(build, clients, outbox, c, task[c].msg)
    /\ Fits(outbox')
    /\ task' = [task EXCEPT ![c] = At("steady")]
    /\ UNCHANGED <<channel, pools, locations, build, clients, contracts, now, rx>>

\* ------------------------------------------------------------ replay
\* The outbound half of the connection: the spawned task that forwards the
\* channel to the socket meets a send error and ends, and the receiving half
\* of the channel is dropped with it.  It fails on a frame it forwards, so a
\* frame has been enqueued for the client before.
WriterStops(c) ==
    /\ channel[c]
    /\ c \in DOMAIN clients
    /\ outbox[c] # <<>> \/ (clients[c].authenticated /\ task[c].pc # "auth_respond")
    /\ channel' = [channel EXCEPT ![c] = FALSE]
    /\ UNCHANGED <<pools, locations, build, clients, outbox, contracts, now, task, rx>>

record_frame(n, rec) == [type |-> KindOrder[n], data |-> rec]

marker_frame(n, date) == [type |-> KindOrder[n], data |-> [newSyncDate |-> date]]

\* The record frames of one page, in page order.
page_frames(n, page) == [m \in 1..Len(page) |-> record_frame(n, page[m])]

\* The watermark after one page:
\*   if let Some(newest_date) = contract["arrivalAtServer"].as_i64()
\*       { if date <= newest_date { date = newest_date + 1 } }
RECURSIVE advance(_, _, _)
advance(date, page, n) ==
    IF n > Len(page) THEN date
    ELSE advance(IF "arrivalAtServer" \in DOMAIN page[n] /\ date <= page[n].arrivalAtServer
                 THEN page[n].arrivalAtServer + 1 ELSE date,
                 page, n + 1)

\* The replay with the kinds taken in another order.
next_kind_swapped(n) ==
    CASE n = 3 -> 5
      [] n = 5 -> 4
      [] n = 4 -> 6
      [] OTHER -> n + 1

\* handle_sync_request: the kind replayed after the n-th.
next_kind(n) == n + 1

\* send_<kind>_data: one turn of its loop.  A page with records is sent and
\* the watermark advanced; an empty page ends the loop, the marker is sent
\* and the replay goes on to the next kind.  In the refactored server a send
\* that fails ends handle_sync_request with an error; the channel is taken to
\* close between two pages.  The monolithic binary logs the failure and goes
\* on.
SyncPage(c) ==
    /\ task[c].pc = "sync"
    /\ LET n == task[c].kind
           page == updates_by_date(n, Db(c), task[c].date)
       IN IF build = "modular" /\ send_fails(clients, c)
          THEN /\ task' = [task EXCEPT ![c] = At("steady")]
               /\ UNCHANGED outbox
          ELSE IF page # <<>>
          THEN /\ task[c].pages < MaxPages
               /\ outbox' = IF send_fails(clients, c) THEN outbox
                            ELSE [outbox EXCEPT ![c] = @ \o page_frames(n, page)]
               /\ task' = [task EXCEPT ![c].date = advance(@, page, 1),
                                       ![c].pages = @ + 1]
          ELSE /\ outbox' = send_message(clients, outbox, c, marker_frame(n, task[c].date))
               /\ task' = [task EXCEPT ![c] =
                             IF n = Len(KindOrder) THEN [@ EXCEPT !.pc = "mark_sync"]
                             ELSE [@ EXCEPT !.kind = next_kind(n), !.pages = 0,
                                            !.date = last_sync(task[c].msg, next_kind(n))]]
    /\ Fits(outbox')
    /\ UNCHANGED <<channel, pools, locations, build, clients, contracts, now, rx>>

\* The end of the replay: the client is marked and sync_from_server_complete
\* is sent.
MarkSynced(c) ==
    /\ task[c].pc = "mark_sync"
    /\ clients' = mark_sync_completed(clients, c)
    /\ outbox' = send_message(clients, outbox, c, [type |-> "sync_from_server_complete"])
    /\ Fits(outbox')
    /\ task' = [task EXCEPT ![c] = At("steady")]
    /\ UNCHANGED <<channel, pools, locations, build, contracts, now, rx>>

\* ------------------------------------------------------------ specification
\* The steps both generations share.
Common ==
    \/ Tick
    \/ \E c \in Conns : Connect(c)
    \/ \E c \in Conns : Disconnect(c)
    \/ \E c \in Conns : RecvAuth(c)
    \/ \E c \in Conns : RecvSync(c)
    \/ \E c \in Conns : RecvUpdate(c)
    \/ \E c \in Conns : RecvPlain(c)
    \/ \E c \in Conns : IouGet(c)
    \/ \E c \in Conns : Skip(c)
    \/ \E c \in Conns : IouInsert(c)
    \/ \E c \in Conns : IouUpdateSelect(c)
    \/ \E c \in Conns : IouUpdateWrite(c)
    \/ \E c \in Conns : MarkDeleted(c)
    \/ \E c \in Conns : Broadcast(c)
    \/ \E c \in Conns : SyncPage(c)
    \/ \E c \in Conns : MarkSynced(c)

Next ==
    \/ Common
    \/ \E c \in Conns : AuthRespond(c)

NextMain ==
    \/ Common
    \/ \E c \in Conns : AuthLookup(c)

Spec == Init /\ [][Next]_vars

SpecMain == InitMain /\ [][NextMain]_vars

\* The refactored server with two clients authenticated for tenant "a", the
\* contracts table of "a" holding one saved contract.
InitStore ==
    /\ build = "modular"
    /\ clients = [c \in Conns |-> Authenticated(c, <<"a">>, <<"1">>)]
    /\ outbox = [c \in Conns |-> <<>>]
    /\ contracts = OneContract
    /\ now = 1
    /\ task = [c \in Conns |-> At("steady")]
    /\ rx = [c \in Conns |-> 0]
    /\ channel = [c \in Conns |-> TRUE]
    /\ pools = {<<"a">>}
    /\ locations = NoLocations

\* The steps of ingest and replay; the second client is the one that asks
\* for a replay.
NextStore ==
    \/ Tick
    \/ RecvSync(ConnOrder[2])
    \/ \E c \in Conns : RecvUpdate(c)
    \/ \E c \in Conns : IouGet(c)
    \/ \E c \in Conns : Skip(c)
    \/ \E c \in Conns : IouInsert(c)
    \/ \E c \in Conns : IouUpdateSelect(c)
    \/ \E c \in Conns : IouUpdateWrite(c)
    \/ \E c \in Conns : MarkDeleted(c)
    \/ \E c \in Conns : Broadcast(c)
    \/ \E c \in Conns : SyncPage(c)
    \/ \E c \in Conns : MarkSynced(c)

SpecStore == InitStore /\ [][NextStore]_vars

\* The steps of ingest with a store that can fail, frames the protocol does
\* not know, and writer tasks that stop.
NextFault ==
    \/ \E c \in Conns : RecvUpdate(c)
    \/ \E c \in Conns : RecvOdd(c)
    \/ \E c \in Conns : IouGet(c)
    \/ \E c \in Conns : Skip(c)
    \/ \E c \in Conns : IouInsert(c)
    \/ \E c \in Conns : IouUpdateSelect(c)
    \/ \E c \in Conns : IouUpdateWrite(c)
    \/ \E c \in Conns : MarkDeleted(c)
    \/ \E c \in Conns : Broadcast(c)
    \/ \E c \in Conns : StorageError(c)
    \/ \E c \in Conns : WriterStops(c)

SpecFault == InitStore /\ [][NextFault]_vars

\* The rows a contracts table may hold: a live row carries what a client
\* sent and the clock value of its save, a tombstone the clock value of its
\* deletion as lastEdit and as arrivalAtServer.
Rows(i) ==
    {[id |-> i, lastEdit |-> e, title |-> v, deleted |-> 0, arrivalAtServer |-> a] :
        e \in Edits, v \in Titles, a \in 1..MaxNow}
    \cup
    {[id |-> i, lastEdit |-> a, title |-> v, deleted |-> 1, arrivalAtServer |-> a] :
        v \in Titles, a \in 1..MaxNow}

Tables ==
    UNION {{tbl \in [S -> UNION {Rows(i) : i \in S}] : \A i \in S : tbl[i].id = i} :
            S \in SUBSET Ids}

\* The refactored server with one client authenticated for tenant "a", over
\* every contracts table of "a".
InitDelta ==
    /\ build = "modular"
    /\ clients = [c \in {ConnOrder[1]} |-> Authenticated(c, <<"a">>, <<"1">>)]
    /\ outbox = [c \in Conns |-> <<>>]
    /\ \E tbl \in Tables :
          contracts = [t \in DbFiles |-> IF t = <<"a">> THEN tbl ELSE EmptyMap]
    /\ now = MaxNow
    /\ task = [c \in Conns |-> IF c = ConnOrder[1] THEN At("steady") ELSE At("init")]
    /\ rx = [c \in Conns |-> 0]
    /\ channel = [c \in Conns |-> TRUE]
    /\ pools = {<<"a">>}
    /\ locations = NoLocations

\* The steps of replay, and the end of the client's writer task.
NextDelta ==
    \/ \E c \in Conns : RecvSync(c)
    \/ \E c \in Conns : SyncPage(c)
    \/ \E c \in Conns : MarkSynced(c)
    \/ \E c \in Conns : WriterStops(c)

SpecDelta == InitDelta /\ [][NextDelta]_vars

\* The refactored server with one client authenticated for tenant "a", whose
\* locations table holds one saved location.
InitLocation ==
    /\ build = "modular"
    /\ clients = [c \in {ConnOrder[1]} |-> Authenticated(c, <<"a">>, <<"1">>)]
    /\ outbox = [c \in Conns |-> <<>>]
    /\ contracts = OneContract
    /\ now = 1
    /\ task = [c \in Conns |-> IF c = ConnOrder[1] THEN At("steady") ELSE At("init")]
    /\ rx = [c \in Conns |-> 0]
    /\ channel = [c \in Conns |-> TRUE]
    /\ pools = {<<"a">>}
    /\ locations = OneLocation

\* The steps of the ingest of locations, one save or delete after the other.
NextLocation ==
    \/ Tick
    \/ \E c \in Conns : RecvLocation(c)
    \/ \E c \in Conns : JunctionDelete(c)
    \/ \E c \in Conns : JunctionInsert(c)
    \/ \E c \in Conns : IouGet(c)
    \/ \E c \in Conns : Skip(c)
    \/ \E c \in Conns : IouInsert(c)
    \/ \E c \in Conns : IouUpdateSelect(c)
    \/ \E c \in Conns : IouUpdateWrite(c)
    \/ \E c \in Conns : MarkDeleted(c)
    \/ \E c \in Conns : Broadcast(c)

SpecLocation == InitLocation /\ [][NextLocation]_vars

\* The refactored server with two clients authenticated for tenant "a", one
\* stored location and no contract.
InitHandoff ==
    /\ build = "modular"
    /\ clients = [c \in Conns |-> Authenticated(c, <<"a">>, <<"1">>)]
    /\ outbox = [c \in Conns |-> <<>>]
    /\ contracts = [t \in DbFiles |-> EmptyMap]
    /\ now = 1
    /\ task = [c \in Conns |-> At("steady")]
    /\ rx = [c \in Conns |-> 0]
    /\ channel = [c \in Conns |-> TRUE]
    /\ pools = {<<"a">>}
    /\ locations = OneLocation

\* The first client saves and deletes locations while the second asks for a
\* replay.
NextHandoff ==
    \/ Tick
    \/ RecvLocation(ConnOrder[1])
    \/ RecvSync(ConnOrder[2])
    \/ \E c \in Conns : JunctionDelete(c)
    \/ \E c \in Conns : JunctionInsert(c)
    \/ \E c \in Conns : IouGet(c)
    \/ \E c \in Conns : Skip(c)
    \/ \E c \in Conns : IouInsert(c)
    \/ \E c \in Conns : IouUpdateSelect(c)
    \/ \E c \in Conns : IouUpdateWrite(c)
    \/ \E c \in Conns : MarkDeleted(c)
    \/ \E c \in Conns : Broadcast(c)
    \/ \E c \in Conns : SyncPage(c)
    \/ \E c \in Conns : MarkSynced(c)

SpecHandoff == InitHandoff /\ [][NextHandoff]_vars

\* The state of InitHandoff after the stored location was deleted at clock
\* value 1: mark_as_deleted leaves the junction rows in place.
InitTombstone ==
    /\ build = "modular"
    /\ clients = [c \in Conns |-> Authenticated(c, <<"a">>, <<"1">>)]
    /\ outbox = [c \in Conns |-> <<>>]
    /\ contracts = [t \in DbFiles |-> EmptyMap]
    /\ now = 1
    /\ task = [c \in Conns |-> At("steady")]
    /\ rx = [c \in Conns |-> 0]
    /\ channel = [c \in Conns |-> TRUE]
    /\ pools = {<<"a">>}
    /\ locations = [OneLocation EXCEPT ![<<"a">>].rows = mark_as_deleted(@, "l1", 1)]

SpecTombstone == InitTombstone /\ [][NextHandoff]_vars

\* The refactored server at its start: no client, no pool.
InitAuth ==
    /\ build = "modular"
    /\ clients = EmptyMap
    /\ outbox = [c \in Conns |-> <<>>]
    /\ contracts = OneContract
    /\ now = 1
    /\ task = [c \in Conns |-> At("init")]
    /\ rx = [c \in Conns |-> 0]
    /\ channel = [c \in Conns |-> TRUE]
    /\ pools = {}
    /\ locations = NoLocations

\* The life of a connection: accepted, authenticated or not, its writer
\* task stopping, its socket ending.
NextAuth ==
    \/ \E c \in Conns : Connect(c)
    \/ \E c \in Conns : RecvCredential(c)
    \/ \E c \in Conns : RecvPlain(c)
    \/ \E c \in Conns : AuthRespond(c)
    \/ \E c \in Conns : AuthTimeout(c)
    \/ \E c \in Conns : WriterStops(c)
    \/ \E c \in Conns : Disconnect(c)

\* The timer of the authentication deadline fires, and a handler that can
\* take its next step takes it.  Nothing obliges a client to send a frame or
\* to end its socket.
FairAuth ==
    \A c \in Conns : WF_vars(AuthTimeout(c)) /\ WF_vars(AuthRespond(c))

SpecAuth == InitAuth /\ [][NextAuth]_vars /\ FairAuth

\* ------------------------------------------------------------ properties
\* The frames a step enqueues for d.
Enqueued(d) == SubSeq(outbox'[d], Len(outbox[d]) + 1, Len(outbox'[d]))

\* The set of the elements of a sequence.
Range(q) == {q[n] : n \in 1..Len(q)}

\* C1: the fan-out of an ingest received on a connection bound to tenant T
\* enqueues no frame (copy, acknowledgement or tombstone echo) on the
\* channel of a client whose tenant is not T.
C1_TenantIsolation ==
    [][\A c \in Conns : Broadcast(c) =>
          \A d \in Conns : Enqueued(d) # <<>> =>
              d \in DOMAIN clients /\ clients[d].db_name = clients[c].db_name]_vars

\* C2: a client whose sync_completed flag is false is never a recipient of
\* the fan-out of a mutation ingested from another client.
C2_SyncGate ==
    [][\A c \in Conns : Broadcast(c) =>
          \A d \in Conns \ {c} : Enqueued(d) # <<>> =>
              d \in DOMAIN clients /\ clients[d].sync_completed]_vars

\* C3: a save that update() skipped (no row written, because the incoming
\* lastEdit is not greater than the stored one) is followed by no fan-out:
\* nothing is enqueued for any peer nor for the originator.
C3_SkippedSaveSilent ==
    [][\A c \in Conns :
          (Broadcast(c) /\ ~is_deleted(task[c].msg) /\ task[c].rows = 0) =>
              \A d \in Conns : Enqueued(d) = <<>>]_vars

\* No handler is in flight.
Quiet == \A c \in Conns : task[c].pc \in {"init", "wait_auth", "steady", "closed"}

\* The records of id i whose save has completed with a fan-out in tenant t:
\* the copies enqueued for the peers.
SavedRecords(t, i) ==
    {f.data : f \in {g \in UNION {Range(outbox[c]) :
                                     c \in {d \in DOMAIN clients : clients[d].db_name = t}} :
                        /\ "data" \in DOMAIN g
                        /\ "lastEdit" \in DOMAIN g.data
                        /\ "deleted" \in DOMAIN g.data
                        /\ g.data.id = i}}

\* A deletion of id i has been fanned out in tenant t.
DeleteSeen(t, i) ==
    \E c \in DOMAIN clients : \E n \in 1..Len(outbox[c]) :
        /\ clients[c].db_name = t
        /\ is_deleted(outbox[c][n])
        /\ outbox[c][n].data.id = i

\* C4: last writer wins: once every save of an id has completed, and no
\* deletion of the id was made, the stored row carries the greatest lastEdit
\* of the saved records, whatever the order of the steps of the saves.
C4_LastWriterWins ==
    Quiet =>
        \A t \in DbFiles : \A i \in Ids :
            ~DeleteSeen(t, i) =>
                \A r \in SavedRecords(t, i) :
                    /\ i \in DOMAIN contracts[t]
                    /\ contracts[t][i].lastEdit >= r.lastEdit

C6_TombstoneTerminal ==
    [][\A c \in Conns :
          /\ (/\ IouGet(c)
              /\ task[c].msg.data.id \in DOMAIN contracts[Db(c)]
              /\ contracts[Db(c)][task[c].msg.data.id].deleted = 1)
             => (contracts' = contracts /\ task'[c].pc = "skipped")
          /\ (task[c].pc = "skipped" /\ task'[c] # task[c])
             => (/\ contracts' = contracts
                 /\ outbox' = outbox
                 /\ task'[c].pc = "steady")]_vars

\* A save with a lastEdit greater than the tombstone's has been reported as
\* not written.
C6_Witness ==
    \E c \in Conns :
        /\ task[c].pc = "skipped"
        /\ task[c].msg.data.id \in DOMAIN contracts[Db(c)]
        /\ contracts[Db(c)][task[c].msg.data.id].deleted = 1
        /\ contracts[Db(c)][task[c].msg.data.id].lastEdit < task[c].msg.data.lastEdit

\* C7: a tombstone carries the time of its deletion as arrivalAtServer and
\* is returned by the delta query for every watermark below it.
C7_TombstonesInDelta ==
    \A t \in DbFiles : \A i \in DOMAIN contracts[t] :
        contracts[t][i].deleted = 1 =>
            \A w \in Watermarks :
                w < contracts[t][i].arrivalAtServer => i \in delta_rows(contracts[t], w)

\* C8: when an insert or an update commits a record with arrival a, the
\* delta query returns the record for every watermark below a; and one turn
\* of the replay of contracts sends every record of its page, the marker
\* only after a page with no record.
C8_DeltaComplete ==
    [][\A c \in Conns :
          /\ (IouInsert(c) \/ IouUpdateWrite(c)) =>
                \A w \in Watermarks :
                    w < SaveData(c).arrivalAtServer =>
                        contract_json(SaveData(c)) \in
                            Range(get_contract_updates_by_date(contracts'[Db(c)], w))
          /\ (SyncPage(c) /\ KindOrder[task[c].kind] = "contract_update") =>
                /\ \A i \in delta_rows(contracts[Db(c)], task[c].date) :
                      record_frame(3, contract_json(contracts[Db(c)][i])) \in Range(Enqueued(c))
                /\ marker_frame(3, task[c].date) \in Range(Enqueued(c)) =>
                      delta_rows(contracts[Db(c)], task[c].date) = {}]_vars

\* A record committed with arrival 2 has been sent by a replay started at
\* watermark 1, and no marker has been sent.
C8_Witness ==
    \E c \in Conns : \E i \in DOMAIN contracts[Db(c)] :
        /\ task[c].pc = "sync"
        /\ task[c].msg.data.contract_update = 1
        /\ contracts[Db(c)][i].deleted = 0
        /\ contracts[Db(c)][i].arrivalAtServer = 2
        /\ record_frame(3, contract_json(contracts[Db(c)][i])) \in Range(outbox[c])
        /\ \A n \in 1..Len(outbox[c]) :
              outbox[c][n].type = "contract_update" => "newSyncDate" \notin DOMAIN outbox[c][n].data

\* C9: a frame other than authentication_request read from a connection
\* that is not authenticated changes neither the client table nor any
\* tenant store, and enqueues nothing for any client.
C9_AuthGate ==
    [][\A c \in Conns :
          (c \in DOMAIN clients /\ ~clients[c].authenticated /\ rx'[c] # rx[c]) =>
              \A f \in Frames :
                  ((~from_str(f) \/ f.type # "authentication_request") /\ Recv(c, f))
                      => UNCHANGED <<clients, contracts, outbox>>]_vars

\* A connection that is not authenticated has had a frame read and waits on,
\* while another client is authenticated.
C9_Witness ==
    \E c \in DOMAIN clients :
        /\ ~clients[c].authenticated
        /\ task[c].pc = "wait_auth"
        /\ rx[c] > 0
        /\ \E d \in DOMAIN clients : clients[d].authenticated

KindRank(f) ==
    IF \E n \in 1..Len(KindOrder) : KindOrder[n] = f.type
    THEN CHOOSE n \in 1..Len(KindOrder) : KindOrder[n] = f.type
    ELSE 0

IsMarker(f) == KindRank(f) > 0 /\ "newSyncDate" \in DOMAIN f.data

IsTerminal(f) == f.type = "sync_from_server_complete"

\* The places of q before n since the last sync_from_server_complete before
\* n: the frames of the replay the n-th frame belongs to.
SameReplay(q, n) == {m \in 1..(n - 1) : \A j \in m..(n - 1) : ~IsTerminal(q[j])}

\* C11: within one replay the frames enqueued for the client, record frames
\* and markers, follow the order user, sawmill, contract, location,
\* shipment, note, photo: no frame of a kind comes after a frame of a later
\* kind.
C11_ReplayOrder ==
    \A c \in Conns : \A n \in 1..Len(outbox[c]) : \A m \in SameReplay(outbox[c], n) :
        (KindRank(outbox[c][m]) > 0 /\ KindRank(outbox[c][n]) > 0)
            => KindRank(outbox[c][m]) <= KindRank(outbox[c][n])

\* A replay has sent a user record and, after it, the marker of every one
\* of the seven kinds.
C11_Witness ==
    \E c \in Conns : \E n \in 1..Len(outbox[c]) :
        /\ outbox[c][n].type = "user_update"
        /\ ~IsMarker(outbox[c][n])
        /\ \A k \in 1..Len(KindOrder) :
              \E m \in (n + 1)..Len(outbox[c]) :
                  IsMarker(outbox[c][m]) /\ KindRank(outbox[c][m]) = k

\* The number of sync_from_server_complete frames among the first n of q.
RECURSIVE Terminals(_, _)
Terminals(q, n) ==
    IF n = 0 THEN 0 ELSE Terminals(q, n - 1) + (IF IsTerminal(q[n]) THEN 1 ELSE 0)

\* Every sync_from_server_complete frame enqueued for a client follows, in
\* its replay, the markers of all seven kinds, and the client's flag is set;
\* a client back in its read loop with its channel open has been sent one
\* such frame for each sync_request read from it.
TerminalAfterMarkers ==
    \A c \in DOMAIN clients :
        /\ \A n \in 1..Len(outbox[c]) :
              IsTerminal(outbox[c][n]) =>
                  /\ clients[c].sync_completed
                  /\ \A k \in 1..Len(KindOrder) :
                        \E m \in SameReplay(outbox[c], n) :
                            IsMarker(outbox[c][m]) /\ KindRank(outbox[c][m]) = k
        /\ (task[c].pc = "steady" /\ channel[c]) =>
              Terminals(outbox[c], Len(outbox[c])) = rx[c]

\* The step that ends a replay enqueues the terminal frame and nothing else,
\* with the flag set in the state it leaves; no other step of a replay
\* enqueues one.
OneTerminal(c) ==
    /\ (MarkSynced(c) /\ ~send_fails(clients, c)) =>
          /\ Enqueued(c) = <<[type |-> "sync_from_server_complete"]>>
          /\ clients'[c].sync_completed
    /\ SyncPage(c) => \A n \in 1..Len(Enqueued(c)) : ~IsTerminal(Enqueued(c)[n])

\* C12 as stated: a replay whose sends all succeed produces one
\* sync_from_server_complete frame, after the markers of all seven kinds and
\* after the flag is set; a replay that ends on a failed send, whichever
\* send it is, enqueues no such frame and leaves the flag as it was.
C12_AbortLeavesFlag ==
    /\ []TerminalAfterMarkers
    /\ [][\A c \in Conns :
             /\ OneTerminal(c)
             /\ (/\ task[c].pc \in {"sync", "mark_sync"}
                 /\ task'[c].pc = "steady"
                 /\ send_fails(clients, c))
                => (Enqueued(c) = <<>> /\ clients' = clients)]_vars

\* C12: a replay whose sends all succeed produces one
\* sync_from_server_complete frame, after the markers of all seven kinds and
\* after the flag is set; a replay that ends on a failed send of a record or
\* of a marker enqueues no such frame and leaves the flag as it was.  (The
\* flag is set before the terminal frame is sent, so it stays set when that
\* last send fails.)
C12_TerminalMarker ==
    /\ []TerminalAfterMarkers
    /\ [][\A c \in Conns :
             /\ OneTerminal(c)
             /\ (/\ task[c].pc = "sync"
                 /\ task'[c].pc = "steady"
                 /\ send_fails(clients, c))
                => (Enqueued(c) = <<>> /\ clients' = clients)]_vars

\* A replay has run to its end: the client, its flag set, is back in its
\* read loop and the last frame enqueued for it is the terminal frame.
C12_Witness ==
    \E c \in DOMAIN clients :
        /\ task[c].pc = "steady"
        /\ clients[c].sync_completed
        /\ rx[c] = 1
        /\ Len(outbox[c]) > Len(KindOrder)
        /\ IsTerminal(outbox[c][Len(outbox[c])])
        /\ Terminals(outbox[c], Len(outbox[c])) = 1

\* C13: when the fan-out of an ingested mutation that changed a stored row
\* runs, every authenticated client of the originator's tenant other than
\* the originator is sent one frame, the inbound frame as it came.
C13_PeerFanOut ==
    [][\A c \in Conns :
          (Broadcast(c) /\ task[c].rows > 0) =>
              \A d \in get_clients_by_tenant(clients, Db(c)) \ {c} :
                  Enqueued(d) = <<task[c].msg>>]_vars

\* Two clients are authenticated for one tenant; a save read from one of
\* them has been fanned out, and the last frame enqueued for the other is
\* that save, record and all.
C13_Witness ==
    \E c \in DOMAIN clients : \E d \in DOMAIN clients \ {c} :
        /\ clients[c].authenticated /\ clients[d].authenticated
        /\ clients[c].db_name = clients[d].db_name
        /\ task[c].pc = "steady" /\ rx[c] > 0 /\ rx[d] > 0
        /\ outbox[d] # <<>> /\ outbox[c] # <<>>
        /\ outbox[d][Len(outbox[d])] \in SaveFrames
        /\ outbox[c][Len(outbox[c])] =
              [type |-> "contract_update",
               data |-> [id |-> outbox[d][Len(outbox[d])].data.id, synced |-> 1]]

\* C14: when the fan-out of an ingested mutation that changed a stored row
\* runs, the originator is sent one frame: for a save the acknowledgement of
\* the frame's type with data {id, synced: 1} and no other field of the
\* record, for a delete the delete frame as it came.
C14_OriginatorAck ==
    [][\A c \in Conns :
          (Broadcast(c) /\ task[c].rows > 0) =>
              Enqueued(c) =
                  <<IF "deleted" \in DOMAIN task[c].msg.data /\ task[c].msg.data.deleted = 1
                    THEN task[c].msg
                    ELSE [type |-> task[c].msg.type,
                          data |-> [id |-> task[c].msg.data.id, synced |-> 1]]>>]_vars

\* A client has saved a record and then deleted it: the acknowledgement and
\* then the delete frame are enqueued for it, and its peer has been sent the
\* delete frame too.
C14_Witness ==
    \E c \in DOMAIN clients : \E d \in DOMAIN clients \ {c} : \E i \in Ids :
        /\ rx[c] = 2 /\ rx[d] = 0
        /\ Len(outbox[c]) = 2
        /\ outbox[c][1] = [type |-> "contract_update", data |-> [id |-> i, synced |-> 1]]
        /\ outbox[c][2] = [type |-> "contract_update", data |-> [id |-> i, deleted |-> 1]]
        /\ outbox[d] # <<>>
        /\ outbox[d][Len(outbox[d])] = outbox[c][2]
        /\ contracts[Db(c)][i].deleted = 1

\* C15: a connection that has not completed authentication with success is
\* sent no frame by any fan-out.
C15_UnauthenticatedNoFanOut ==
    [][\A c \in Conns : Broadcast(c) =>
          \A d \in Conns : Enqueued(d) # <<>> =>
              d \in DOMAIN clients /\ clients[d].authenticated]_vars

\* C16: an authentication_request read from a connection that is already
\* authenticated is ignored: the client's record (tenant, user id, the two
\* flags) stays as it is, nothing is enqueued, and the connection goes on
\* reading.
C16_ReauthenticationIgnored ==
    [][\A c \in Conns :
          (c \in DOMAIN clients /\ clients[c].authenticated /\ rx'[c] # rx[c]) =>
              \A f \in AuthFrames :
                  Recv(c, f) => /\ clients' = clients
                                /\ outbox' = outbox
                                /\ task'[c].pc = task[c].pc]_vars

\* C17: a delete frame whose id matches no row of the table leaves the table
\* as it is and is followed by no fan-out: nothing is enqueued for a peer
\* nor for the originator.
C17_UnknownDeleteSilent ==
    [][\A c \in Conns :
          /\ (MarkDeleted(c) /\ task[c].msg.data.id \notin DOMAIN contracts[Db(c)])
                => contracts' = contracts
          /\ (Broadcast(c) /\ is_deleted(task[c].msg) /\ task[c].rows = 0)
                => \A d \in Conns : Enqueued(d) = <<>>]_vars

\* The tenant an authentication_request names has no database file.
NoSuchTenant(f) ==
    /\ Len(splitn2(f.data.apiKey)) = 2
    /\ splitn2(f.data.apiKey)[1] \notin DbFiles

\* C20: an authentication_request that names a tenant without a database
\* file, read in the authentication wait, is answered with one
\* authentication_response, {authenticated: 0, error: "Invalid tenant"}; no
\* pool is created, the client is removed without having been marked
\* authenticated, and the connection, closed, reads no frame after it.
C20_InvalidTenant ==
    [][\A c \in Conns :
          /\ (task[c].pc = "wait_auth" /\ rx'[c] # rx[c]) =>
                \A f \in AuthFrames :
                    (NoSuchTenant(f) /\ Recv(c, f)) =>
                        /\ Enqueued(c) =
                              <<[type |-> "authentication_response",
                                 data |-> [authenticated |-> 0, error |-> "Invalid tenant"]]>>
                        /\ \A d \in Conns \ {c} : Enqueued(d) = <<>>
                        /\ pools' = pools
                        /\ c \notin DOMAIN clients'
                        /\ \A d \in DOMAIN clients' : clients'[d] = clients[d]
                        /\ task'[c].pc = "closed"
          /\ task[c].pc = "closed" =>
                /\ rx'[c] = rx[c]
                /\ task'[c] = task[c]
                /\ outbox'[c] = outbox[c]
                /\ c \notin DOMAIN clients']_vars

\* A connection has been closed on its first frame with the rejection
\* "Invalid tenant" as the only frame enqueued for it, no pool but the one
\* of the first client exists, and the first client has gone on since.
C20_Witness ==
    \E c \in Conns :
        /\ task[c].pc = "closed"
        /\ c \notin DOMAIN clients
        /\ rx[c] = 1
        /\ outbox[c] = <<[type |-> "authentication_response",
                          data |-> [authenticated |-> 0, error |-> "Invalid tenant"]]>>
        /\ pools = {<<"a">>}
        /\ \E d \in DOMAIN clients : rx[d] > 0

SawmillIds == {"s1", "s2"}

\* The save of a location in flight on c has gone through
\* insert_or_update_location.
LocationSaveDone(c) ==
    /\ c \in DOMAIN clients
    /\ OnLocations(c)
    /\ ~is_deleted(task[c].msg)
    /\ task[c].pc \in {"broadcast", "skipped"}

\* C18: when a save of a location has completed, the junction holds the row
\* (id, s, 0) exactly for the sawmill ids s of the saved sawmillIds and the
\* row (id, s, 1) exactly for those of the saved oversizeSawmillIds, and
\* get_location_by_id returns those two sets, whatever sets were stored for
\* the location before.
C18_JunctionConsistency ==
    \A c \in Conns :
        LocationSaveDone(c) =>
            LET d == task[c].msg.data
                loc == locations[Db(c)]
                read == get_location_by_id(loc, d.id)
            IN /\ \A s \in SawmillIds :
                     /\ <<d.id, s, 0>> \in loc.junction <=> s \in Range(d.sawmillIds)
                     /\ <<d.id, s, 1>> \in loc.junction <=> s \in Range(d.oversizeSawmillIds)
               /\ read # <<>>
               /\ read[1].sawmillIds = Range(d.sawmillIds)
               /\ read[1].oversizeSawmillIds = Range(d.oversizeSawmillIds)

\* A save of the stored location, which had sawmill "s1" in its sawmillIds,
\* has been written with no sawmillIds and "s1" as oversizeSawmillIds, and
\* the junction holds that one row for it.
C18_Witness ==
    \E c \in Conns :
        /\ LocationSaveDone(c)
        /\ task[c].pc = "broadcast"
        /\ task[c].rows = 1
        /\ task[c].msg.data.id = "l1"
        /\ task[c].msg.data.sawmillIds = <<>>
        /\ locations[Db(c)].rows["l1"].lastEdit = task[c].msg.data.lastEdit
        /\ locations[Db(c)].junction = {<<"l1", "s1", 1>>}

\* The save of a location in flight on c is one the row store skips: the
\* stored row is a tombstone, or is live with a lastEdit not less than the
\* incoming one.
StaleLocationSave(c) ==
    /\ c \in DOMAIN clients
    /\ OnLocations(c)
    /\ ~is_deleted(task[c].msg)
    /\ task[c].msg.data.id \in DOMAIN Table(c)
    /\ \/ Table(c)[task[c].msg.data.id].deleted = 1
       \/ task[c].msg.data.lastEdit <= Table(c)[task[c].msg.data.id].lastEdit

\* C19: a save of a location that is skipped (the stored row is a tombstone,
\* or its lastEdit is not less than the incoming one) leaves the junction
\* rows as they are.
C19_SkippedSaveKeepsJunction ==
    [][\A c \in Conns :
          (StaleLocationSave(c) /\ task'[c] # task[c]) =>
              locations'[Db(c)].junction = locations[Db(c)].junction]_vars

\* The tenant an authentication_request names has a database file, and its
\* users table has no live row for the user id: none, or a tombstone.
NoSuchUser(f) ==
    /\ Len(splitn2(f.data.apiKey)) = 2
    /\ splitn2(f.data.apiKey)[1] \in DbFiles
    /\ \/ splitn2(f.data.apiKey)[2] \notin DOMAIN Users(splitn2(f.data.apiKey)[1])
       \/ Users(splitn2(f.data.apiKey)[1])[splitn2(f.data.apiKey)[2]].deleted = 1

GoodCredential(f) ==
    /\ Len(splitn2(f.data.apiKey)) = 2
    /\ splitn2(f.data.apiKey)[1] \in DbFiles
    /\ splitn2(f.data.apiKey)[2] \in DOMAIN Users(splitn2(f.data.apiKey)[1])
    /\ Users(splitn2(f.data.apiKey)[1])[splitn2(f.data.apiKey)[2]].deleted = 0

\* A connection past its authentication wait is in the client table with
\* the authenticated flag.
SteadyIsAuthenticated ==
    \A c \in Conns :
        task[c].pc \notin {"init", "wait_auth", "closed"} =>
            c \in DOMAIN clients /\ clients[c].authenticated

BadFormat(f) ==
    \/ Len(splitn2(f.data.apiKey)) # 2
    \/ splitn2(f.data.apiKey)[1] = <<>>
    \/ splitn2(f.data.apiKey)[2] = <<>>

\* C23: an authentication_request whose credential has no '-', an empty
\* tenant part or an empty user part fails as an invalid credential, before
\* the tenant is looked for and before any user lookup: no rejection naming
\* the tenant or the user is sent, no pool is opened, and the connection is
\* closed.
C23_CredentialFormat ==
    [][\A c \in Conns :
          (task[c].pc = "wait_auth" /\ rx'[c] # rx[c]) =>
              \A f \in CredentialFrames :
                  (BadFormat(f) /\ Recv(c, f)) =>
                      /\ outbox' = outbox
                      /\ pools' = pools
                      /\ c \notin DOMAIN clients'
                      /\ task'[c].pc = "closed"]_vars

\* C24: once the writer task of a connection has stopped on a send error,
\* the handler of the connection eventually ends and removes the client from
\* the table, with no further inbound frame, close frame or read error
\* needed to get there.
C24_WriterFailureEnds ==
    \A c \in Conns : (c \in DOMAIN clients /\ ~channel[c]) ~> (c \notin DOMAIN clients)

\* A connection that has left the table is not in it again.
ClosedIsRemoved ==
    \A c \in Conns : task[c].pc = "closed" => c \notin DOMAIN clients

\* C25: a connection waiting for its authentication does not wait for ever:
\* it is authenticated or it is closed and removed from the table; a closed
\* connection is never in the table (so never marked authenticated) again;
\* and a wait that ends without a frame having been read, as on the expiry of
\* the deadline, sends no frame to anyone.
C25_AuthenticationTimeout ==
    /\ \A c \in Conns :
          (task[c].pc \in {"wait_auth", "auth_respond"}) ~>
              (task[c].pc = "steady" \/ (task[c].pc = "closed" /\ c \notin DOMAIN clients))
    /\ []ClosedIsRemoved
    /\ [][\A c \in Conns :
            (/\ task[c].pc \in {"wait_auth", "auth_respond"}
             /\ task'[c].pc = "closed"
             /\ rx'[c] = rx[c]) =>
                /\ outbox' = outbox
                /\ c \notin DOMAIN clients'
                /\ [task' EXCEPT ![c] = task[c]] = task]_vars

\* The deadline expired on a connection whose credential had been accepted
\* and whose response had not been sent yet.
C25_Witness ==
    \E c \in Conns :
        /\ task[c].pc = "closed"
        /\ c \notin DOMAIN clients
        /\ rx[c] = 1
        /\ outbox[c] = <<>>
        /\ pools = {<<"a">>}
        /\ \A d \in Conns \ {c} : task[d].pc = "init"

\* C26 as stated: a step of a replay (the terminal step included) that finds
\* the channel of the syncing client closed ends the replay: nothing more is
\* enqueued for anyone, the handler is back in its read loop, and the
\* client's flag is as it was.
C26_AbortAtAnySend ==
    [][\A c \in Conns :
          (task[c].pc \in {"sync", "mark_sync"} /\ task'[c] # task[c] /\ ~channel[c]) =>
              /\ outbox' = outbox
              /\ task'[c].pc = "steady"
              /\ clients' = clients]_vars

\* C26: a step of a replay that finds the channel of the syncing client
\* closed ends the replay: nothing more is enqueued for anyone and the
\* handler is back in its read loop.  When the send that fails is that of a
\* page or of a marker the client's flag is as it was; when it is the send of
\* the terminal frame the flag has been set just before.
C26_ReplayCancelled ==
    [][\A c \in Conns :
          (task[c].pc \in {"sync", "mark_sync"} /\ task'[c] # task[c] /\ ~channel[c]) =>
              /\ outbox' = outbox
              /\ task'[c].pc = "steady"
              /\ IF task[c].pc = "sync"
                 THEN clients' = clients
                 ELSE clients' = [clients EXCEPT ![c].sync_completed = TRUE]]_vars

\* A first replay was cut short after the marker of some kind: the client is
\* back in its read loop, its channel closed, its flag unset.
C26_Witness ==
    \E c \in DOMAIN clients :
        /\ task[c].pc = "steady"
        /\ rx[c] = 1
        /\ ~channel[c]
        /\ ~clients[c].sync_completed
        /\ outbox[c] # <<>>
        /\ Len(outbox[c]) < Len(KindOrder)
        /\ IsMarker(outbox[c][Len(outbox[c])])

\* C27: a <kind>_update frame whose handler leaves the entity store otherwise
\* than by going on to its next statement, to the skip or to the fan-out, is
\* dropped: no frame is enqueued for anyone by that step, the client table is
\* as it was, with the client in it and authenticated, and the connection is
\* back in its read loop as it stands before any frame, so that the next
\* frame is handled as any frame is.
C27_StorageErrorDropsFrame ==
    [][\A c \in Conns :
          (/\ task[c].pc \in StoragePcs
           /\ task'[c].pc \notin StoragePcs \cup {"skipped", "broadcast"}) =>
              /\ outbox' = outbox
              /\ clients' = clients
              /\ c \in DOMAIN clients /\ clients[c].authenticated
              /\ task'[c] = At("steady")]_vars

\* A client had a frame dropped on a storage error and another one saved:
\* two frames read, one acknowledgement, one copy for its peer, and the
\* contract of the saved frame in the table.
C27_Witness ==
    \E c \in DOMAIN clients : \E d \in DOMAIN clients \ {c} :
        /\ task[c].pc = "steady"
        /\ rx[c] = 2
        /\ rx[d] = 0
        /\ Len(outbox[c]) = 1
        /\ Len(outbox[d]) = 1
        /\ outbox[d][1].data.id = "c2"
        /\ "c2" \in DOMAIN contracts[<<"a">>]
        /\ contracts[<<"a">>]["c1"] = StoredContract

\* C28: within the contracts table of a tenant the writes carry
\* arrivalAtServer values that do not decrease in the order the writes are
\* made: a row written by a step carries a value at least as large as that
\* of every row the table held before the step, whichever connection wrote
\* them.
C28_MonotoneArrival ==
    [][\A t \in DbFiles : \A i \in DOMAIN contracts'[t] :
          (i \notin DOMAIN contracts[t] \/ contracts'[t][i] # contracts[t][i]) =>
              \A j \in DOMAIN contracts[t] :
                  contracts[t][j].arrivalAtServer <= contracts'[t][i].arrivalAtServer]_vars

\* C29: a save of a contract that is stored, carrying the lastEdit the stored
\* row has and other field values, replaces the stored values: when the
\* update of insert_or_update is over, the row has the title of the frame.
C29_ResaveReplaces ==
    [][\A c \in Conns :
          (/\ task[c].pc \in {"update", "update_write"}
           /\ task'[c].pc = "broadcast"
           /\ ~OnLocations(c)
           /\ task[c].msg.data.id \in DOMAIN contracts[Db(c)]
           /\ task[c].msg.data.lastEdit = contracts[Db(c)][task[c].msg.data.id].lastEdit) =>
              contracts'[Db(c)][task[c].msg.data.id].title = task[c].msg.data.title]_vars

\* C30: a turn of the replay loop of a kind that sent a page with records
\* leaves the loop's watermark strictly greater than it was, so that the
\* next query does not select the same rows again and the loop comes to its
\* empty page and its marker.
C30_WatermarkAdvances ==
    [][\A c \in Conns :
          (/\ SyncPage(c)
           /\ ~send_fails(clients, c)
           /\ updates_by_date(task[c].kind, Db(c), task[c].date) # <<>>) =>
              task'[c].date > task[c].date]_vars

\* The frames of kind n enqueued for c in the replay under way that are
\* records, not markers.
RecordsSent(c, n) ==
    {outbox[c][m] : m \in {k \in SameReplay(outbox[c], Len(outbox[c]) + 1) :
                              /\ outbox[c][k].type = KindOrder[n]
                              /\ ~IsMarker(outbox[c][k])}}

\* C31: the marker of a kind carries the requested watermark when no record
\* of the kind was sent in the replay; when records were sent it carries a
\* value greater than the requested watermark, one more than the largest
\* arrivalAtServer of the records sent.
C31_MarkerValue ==
    [][\A c \in Conns :
          (/\ SyncPage(c)
           /\ ~send_fails(clients, c)
           /\ updates_by_date(task[c].kind, Db(c), task[c].date) = <<>>) =>
              LET n == task[c].kind
                  w == last_sync(task[c].msg, n)
                  stamped == {r \in RecordsSent(c, n) : "arrivalAtServer" \in DOMAIN r.data}
              IN /\ Len(Enqueued(c)) = 1
                 /\ IsMarker(Enqueued(c)[1])
                 /\ Enqueued(c)[1].data.newSyncDate >= w
                 /\ task[c].pages = 0 => Enqueued(c)[1].data.newSyncDate = w
                 /\ task[c].pages > 0 => Enqueued(c)[1].data.newSyncDate > w
                 /\ \A r \in stamped :
                       Enqueued(c)[1].data.newSyncDate > r.data.arrivalAtServer]_vars

SetsRead(j, i) == <<get_sawmill_ids(j, i, 0), get_sawmill_ids(j, i, 1)>>

\* The two sets a save frame carries.
SetsSaved(data) ==
    <<{data.sawmillIds[n] : n \in 1..Len(data.sawmillIds)},
      {data.oversizeSawmillIds[n] : n \in 1..Len(data.oversizeSawmillIds)}>>

\* C33: while the first save of a location is under way on a connection, a
\* read of that location by id (get_location_by_id, as another connection
\* would run it at that moment) returns either the sets the location had
\* before the save or the sets of the save, never an empty or partly
\* inserted set.
C33_JunctionAtomic ==
    \A c \in DOMAIN clients :
        (/\ rx[c] = 1
         /\ \A d \in Conns \ {c} : rx[d] = 0
         /\ task[c].msg.type = "location_update"
         /\ ~is_deleted(task[c].msg)
         /\ task[c].pc \in {"junction_delete", "junction_insert", "get_by_id", "insert",
                            "update", "update_write", "skipped", "broadcast"}) =>
            LET i == task[c].msg.data.id
            IN get_location_by_id(locations[Db(c)], i) # <<>> =>
                  SetsRead(locations[Db(c)].junction, i) \in
                      {SetsRead(OneLocation[Db(c)].junction, i), SetsSaved(task[c].msg.data)}

\* C34: in the steady loop a frame that is not JSON, a frame of an unknown
\* type or an update of a kind that is none of the seven is dropped in the step that reads it: no table
\* and no entry of the client table changes, no frame is enqueued for
\* anyone, and the connection is still in its read loop.
C34_ProtocolErrorIgnored ==
    [][\A c \in Conns :
          (task[c].pc = "steady" /\ rx'[c] # rx[c]) =>
              \A f \in OddFrames :
                  Recv(c, f) =>
                      /\ contracts' = contracts
                      /\ locations' = locations
                      /\ clients' = clients
                      /\ outbox' = outbox
                      /\ task' = task]_vars

\* A client with a peer of its tenant has read two frames: one was saved,
\* acknowledged and copied to the peer, the other left nothing behind.
C34_Witness ==
    \E c \in DOMAIN clients : \E d \in DOMAIN clients \ {c} :
        /\ task[c].pc = "steady" /\ task[d].pc = "steady"
        /\ clients[c].db_name = clients[d].db_name
        /\ clients[d].authenticated
        /\ rx[c] = 2 /\ rx[d] = 0
        /\ Len(outbox[c]) = 1
        /\ Len(outbox[d]) = 1
        /\ contracts[<<"a">>]["c1"].title = "new"

\* A capacity an outbound channel could be given; mpsc::unbounded_channel()
\* gives it none.
Capacity == 4

\* C35: the frames enqueued for a client whose writer task forwards none of
\* them never number more than the capacity of its channel: a client still
\* in the table with its channel open holds at most Capacity frames.
C35_BoundedChannel ==
    \A c \in DOMAIN clients : channel[c] => Len(outbox[c]) <= Capacity

\* C36: in the fan-out of an ingested frame a recipient whose channel is
\* closed gets nothing and costs nobody else anything: every other
\* authenticated client of the tenant with an open channel is sent its frame
\* (the peers the frame as it came, the originator its acknowledgement), the
\* tables stay as the write left them, and the originator is back in its
\* read loop, still in the client table.
C36_FanOutIsolation ==
    [][\A c \in Conns :
          Broadcast(c) =>
              /\ \A d \in Conns :
                    Enqueued(d) =
                        IF d \in get_clients_by_tenant(clients, Db(c)) /\ channel[d]
                        THEN <<IF d = c THEN confirm_msg(task[c].msg) ELSE task[c].msg>>
                        ELSE <<>>
              /\ contracts' = contracts
              /\ locations' = locations
              /\ clients' = clients
              /\ task'[c].pc = "steady"]_vars

\* A save was fanned out while the writer task of the peer had stopped: the
\* peer was sent nothing, the originator has its acknowledgement and the row
\* is stored.
C36_Witness ==
    \E c \in DOMAIN clients : \E d \in DOMAIN clients \ {c} :
        /\ task[c].pc = "steady"
        /\ rx[c] = 1 /\ rx[d] = 0
        /\ clients[d].authenticated /\ clients[d].db_name = clients[c].db_name
        /\ ~channel[d] /\ outbox[d] = <<>>
        /\ channel[c]
        /\ outbox[c] = <<[type |-> "contract_update", data |-> [id |-> "c2", synced |-> 1]]>>
        /\ "c2" \in DOMAIN contracts[<<"a">>]

\* The flags of the client table agree: an entry is authenticated exactly
\* when its tenant is not empty, and a client marked as synced is
\* authenticated.
FlagsAgree ==
    \A c \in DOMAIN clients :
        /\ clients[c].authenticated <=> clients[c].db_name # <<>>
        /\ clients[c].sync_completed => clients[c].authenticated

\* C37: in every state of the modular server a client entry is authenticated
\* if and only if its tenant is not empty and a client whose sync-complete
\* flag is set is authenticated; the entry add_client makes for a new
\* connection has authenticated = false, sync_completed = false and an empty
\* tenant.
C37_ClientFlags ==
    /\ []FlagsAgree
    /\ [][\A c \in Conns :
            Connect(c) =>
                /\ c \in DOMAIN clients'
                /\ ~clients'[c].authenticated
                /\ ~clients'[c].sync_completed
                /\ clients'[c].db_name = <<>>]_vars

\* One client is bound to a tenant and marked as synced while another has
\* just been added.
C37_Witness ==
    \E c \in DOMAIN clients : \E d \in DOMAIN clients \ {c} :
        /\ clients[c].authenticated /\ clients[c].sync_completed
        /\ clients[c].db_name = <<"a">>
        /\ task[d].pc = "wait_auth"
        /\ ~clients[d].authenticated /\ clients[d].db_name = <<>>

\* C38: a delete frame for an id whose row is already a tombstone leaves the
\* row's lastEdit and arrivalAtServer as they are, and its handler does not
\* go on to the fan-out.
C38_DeleteIdempotent ==
    [][\A c \in Conns :
          (/\ MarkDeleted(c)
           /\ task[c].msg.data.id \in DOMAIN Table(c)
           /\ Table(c)[task[c].msg.data.id].deleted = 1)
          => /\ contracts'[Db(c)][task[c].msg.data.id].lastEdit
                  = contracts[Db(c)][task[c].msg.data.id].lastEdit
             /\ contracts'[Db(c)][task[c].msg.data.id].arrivalAtServer
                  = contracts[Db(c)][task[c].msg.data.id].arrivalAtServer
             /\ task'[c].pc # "broadcast"]_vars

\* C39: a connection that has been marked authenticated and has been sent
\* nothing yet is sent its authentication_response before any other frame:
\* until the response is enqueued, no step enqueues a fan-out frame of a peer
\* on it.
C39_ResponseFirst ==
    [][\A d \in Conns :
          (task[d].pc = "auth_respond" /\ outbox[d] = <<>> /\ Enqueued(d) # <<>>)
          => Enqueued(d)[1].type = "authentication_response"]_vars

\* The sawmill ids and the oversize sawmill ids a frame carries for a
\* location: a record of the replay carries them as read from the junction
\* table, a frame of a client as the lists it sent.
SetsCarried(f) ==
    IF "arrivalAtServer" \in DOMAIN f.data
    THEN <<f.data.sawmillIds, f.data.oversizeSawmillIds>>
    ELSE <<Range(f.data.sawmillIds), Range(f.data.oversizeSawmillIds)>>

\* Client a has been sent a frame for location i, a record of its replay or
\* a fan-out frame, that carries the sets now stored for i.
Delivered(a, i) ==
    \E n \in 1..Len(outbox[a]) :
        /\ outbox[a][n].type = "location_update"
        /\ "data" \in DOMAIN outbox[a][n]
        /\ "sawmillIds" \in DOMAIN outbox[a][n].data
        /\ outbox[a][n].data.id = i
        /\ SetsCarried(outbox[a][n]) =
              <<get_sawmill_ids(locations[Db(a)].junction, i, 0),
                get_sawmill_ids(locations[Db(a)].junction, i, 1)>>

====
